---- MODULE Spec2Model ----
(***************************************************************************)
(* A model of the EduAI detector: the heuristic scorer of                  *)
(* eduai_detector/core/detector.py (class AITextDetector) and the HTTP     *)
(* front end of eduai_detector/interface/api.py.                           *)
(*                                                                         *)
(* Numbers.  Python floats are modelled as fixed-point integers:           *)
(*   - a metric value or a threshold is held in thousandths (0.25 = 250),  *)
(*   - a weight is held in hundredths (0.10 = 10),                         *)
(*   - a normalised value is held in thousandths (1.0 = 1000),             *)
(*   - a confidence score is the sum of normalised * weight and so is held *)
(*     in hundred-thousandths (0.70 = 70000, 1.0 = 100000).                *)
(* Divisions round toward zero (every operand is non-negative).            *)
(*                                                                         *)
(* Text.  A Python str is a sequence of one-character strings.  A word     *)
(* (token) is a sequence of characters, a word list a sequence of words.   *)
(***************************************************************************)
EXTENDS Integers, Sequences, FiniteSets, TLC

VARIABLES
    metric_weights,     \* self.metric_weights of the module-level detector
    thresholds,         \* self.thresholds of the module-level detector
    transition_words,   \* self.transition_words of the module-level detector
    resources,          \* the language resources installed in the NLTK data directory
    constructed,        \* how many detectors have been constructed
    pc,                 \* where the current call stands: "idle" or "done"
    op,                 \* the operation the current call runs
    arg,                \* the argument of the current call
    ret,                \* what the current call returned
    exc,                \* the exception the current call raised, "none" when it returned
    computed,           \* the metrics _calculate_metrics computed in the current call
    downloads,          \* the packages whose download the current call started
    response,           \* the HTTP response of the current request
    earlier,            \* an earlier call of detect: its text, library results and outcome
    inflight            \* the /analyze requests in flight, each with its position

\* The fields of the detector.
config == <<metric_weights, thresholds, transition_words>>

vars == <<metric_weights, thresholds, transition_words, resources, constructed,
          pc, op, arg, ret, exc, computed, downloads, response, earlier, inflight>>

(***************************************************************************)
(* Generic helpers.                                                        *)
(***************************************************************************)
Min(a, b) == IF a <= b THEN a ELSE b

Max(a, b) == IF a >= b THEN a ELSE b

RECURSIVE SumSeq(_)
SumSeq(s) == IF s = <<>> THEN 0 ELSE Head(s) + SumSeq(Tail(s))

Range(s) == {s[i] : i \in DOMAIN s}

(***************************************************************************)
(* The bounds of the model.                                                *)
(***************************************************************************)
\* The longest text of the exhaustive family of texts.
MaxTextLen == 4

\* The most distinct tags the tagger gives the words of one text.
MaxTagKinds == 12

(***************************************************************************)
(* Configuration fixed by AITextDetector.__init__.                         *)
(***************************************************************************)
\* The metric names, in the insertion order of the dict of _calculate_metrics.
MetricNames ==
    << "repetition_score", "entropy_score", "complexity_score",
       "vocabulary_diversity", "sentence_variation", "transition_patterns",
       "pos_distribution", "readability" >>

\* A faulty variant of InitialWeights: readability weighs 0.10, the others the same.
WeightsUnnormalised ==
    [ repetition_score     |-> 10,
      entropy_score        |-> 15,
      complexity_score     |-> 10,
      vocabulary_diversity |-> 20,
      sentence_variation   |-> 20,
      transition_patterns  |-> 10,
      pos_distribution     |-> 10,
      readability          |-> 10 ]

\* A faulty variant of InitialWeights: the five "higher is AI-like" metrics
\* carry 0.80 of the weight.
WeightsHigherHeavy ==
    [ repetition_score     |-> 20,
      entropy_score        |-> 25,
      complexity_score     |-> 15,
      vocabulary_diversity |-> 10,
      sentence_variation   |-> 5,
      transition_patterns  |-> 5,
      pos_distribution     |-> 15,
      readability          |-> 5 ]

\* self.metric_weights, in hundredths.
InitialWeights ==
    [ repetition_score     |-> 10,
      entropy_score        |-> 15,
      complexity_score     |-> 10,
      vocabulary_diversity |-> 20,
      sentence_variation   |-> 20,
      transition_patterns  |-> 10,
      pos_distribution     |-> 10,
      readability          |-> 5 ]

\* self.thresholds, in thousandths.
InitialThresholds ==
    [ repetition_score     |-> 250,
      entropy_score        |-> 4300,
      complexity_score     |-> 3500,
      vocabulary_diversity |-> 450,
      sentence_variation   |-> 300,
      transition_patterns  |-> 30,
      pos_distribution     |-> 850,
      readability          |-> 50000 ]

\* The metrics for which a lower value is more AI-like (the list literal of
\* _calculate_confidence_score and of _generate_explanation).
LowerIsAI == {"vocabulary_diversity", "sentence_variation", "transition_patterns"}

\* The cutoff of detect, 0.70, as a confidence score.
Cutoff == 70000

\* The bound 0.35 of _generate_explanation, as a confidence score.
LowConfidence == 35000

(***************************************************************************)
(* The scorer: _calculate_confidence_score.                                *)
(***************************************************************************)
\* normalized_value before clipping, in thousandths.  1.0 - x may be negative.
NormalizedRaw(metric_name, metric_value, th) ==
    LET threshold == th[metric_name]
    IN  IF metric_name \in LowerIsAI
        THEN IF threshold > 0
             THEN 1000 - ((metric_value * 1000) \div threshold)
             ELSE 0
        ELSE IF threshold > 0
             THEN (metric_value * 1000) \div threshold
             ELSE 0

\* A faulty variant of Normalized: the direction of the "lower is AI-like" metrics is
\* not inverted.
NormalizedNoInversion(metric_name, metric_value, th) ==
    LET threshold == th[metric_name]
    IN  Max(0, Min(1000, IF threshold > 0
                         THEN (metric_value * 1000) \div threshold
                         ELSE 0))

\* normalized_value after max(0.0, min(1.0, normalized_value)).
Normalized(metric_name, metric_value, th) ==
    Max(0, Min(1000, NormalizedRaw(metric_name, metric_value, th)))

\* A faulty variant of Contribution: the normalised value is not clipped.
ContributionUnclipped(metric_name, metrics, th, w) ==
    NormalizedRaw(metric_name, metrics[metric_name], th) * w[metric_name]

\* normalized_value * weight, the term one metric adds to the score.
Contribution(metric_name, metrics, th, w) ==
    Normalized(metric_name, metrics[metric_name], th) * w[metric_name]

\* The metric names of a mapping, in MetricNames order (metrics.items()).
Items(metrics) == SelectSeq(MetricNames, LAMBDA n : n \in DOMAIN metrics)

RECURSIVE ScoreSum(_, _, _, _)
ScoreSum(names, metrics, th, w) ==
    IF names = <<>>
    THEN 0
    ELSE Contribution(Head(names), metrics, th, w)
         + ScoreSum(Tail(names), metrics, th, w)

\* _calculate_confidence_score(metrics).
CalculateConfidenceScore(metrics, th, w) ==
    Max(0, Min(100000, ScoreSum(Items(metrics), metrics, th, w)))

(***************************************************************************)
(* Characters and the str methods the detector uses.                       *)
(*                                                                         *)
(* A value that an operator reads several times is bound as a parameter    *)
(* of a local operator (LET f(x) == ... IN f(e)), so that it is computed   *)
(* once.                                                                   *)
(***************************************************************************)
Whitespace == {" ", "\t", "\n"}

UpperLetters ==
    << "A","B","C","D","E","F","G","H","I","J","K","L","M",
       "N","O","P","Q","R","S","T","U","V","W","X","Y","Z" >>

LowerLetters ==
    << "a","b","c","d","e","f","g","h","i","j","k","l","m",
       "n","o","p","q","r","s","t","u","v","w","x","y","z" >>

Digits == {"0","1","2","3","4","5","6","7","8","9"}

Alnum == Range(UpperLetters) \cup Range(LowerLetters) \cup Digits

\* str.lower() of each upper-case letter.
LowerOf ==
    [c \in Range(UpperLetters) |->
        LowerLetters[CHOOSE i \in DOMAIN UpperLetters : UpperLetters[i] = c]]

\* One character of str.lower().
LowerChar(c) == IF c \in DOMAIN LowerOf THEN LowerOf[c] ELSE c

\* str.lower().
Lower(text) == [i \in DOMAIN text |-> LowerChar(text[i])]

SetMin(S) == CHOOSE i \in S : \A j \in S : i <= j

SetMax(S) == CHOOSE i \in S : \A j \in S : i >= j

\* The members of a finite set of integers, in increasing order.
Sorted(S) ==
    [k \in 1..Cardinality(S) |->
        CHOOSE i \in S : Cardinality({j \in S : j < i}) = k - 1]

\* The positions of text that do not hold whitespace.
NonSpace(text) == {i \in DOMAIN text : text[i] \notin Whitespace}

\* str.strip(): from the first to the last character that is not whitespace.
Strip(text) ==
    LET cut(kept) == IF kept = {}
                     THEN <<>>
                     ELSE SubSeq(text, SetMin(kept), SetMax(kept))
    IN  cut(NonSpace(text))

\* str.rstrip().
RStrip(text) ==
    LET cut(kept) == IF kept = {} THEN <<>> ELSE SubSeq(text, 1, SetMax(kept))
    IN  cut(NonSpace(text))

\* The pieces of text between the characters of seps, empty pieces kept.
SplitOn(text, seps) ==
    LET pieces(at) ==
            [k \in 1..(Len(at) + 1) |->
                SubSeq(text, IF k = 1 THEN 1 ELSE at[k - 1] + 1,
                             IF k = Len(at) + 1 THEN Len(text) ELSE at[k] - 1)]
    IN  pieces(Sorted({i \in DOMAIN text : text[i] \in seps}))

NonEmpty(pieces) == SelectSeq(pieces, LAMBDA p : p # <<>>)

\* str.split() with no argument: the maximal runs of non-whitespace.
Split(text) ==
    LET runs(first, final) == [k \in DOMAIN first |-> SubSeq(text, first[k], final[k])]
    IN  runs(Sorted({i \in DOMAIN text :
                        /\ text[i] \notin Whitespace
                        /\ (i = 1 \/ text[i - 1] \in Whitespace)}),
             Sorted({i \in DOMAIN text :
                        /\ text[i] \notin Whitespace
                        /\ (i = Len(text) \/ text[i + 1] \in Whitespace)}))

\* The number of positions of s that hold v (one entry of Counter(s)).
Count(s, v) == Cardinality({i \in DOMAIN s : s[i] = v})

\* math.log2(k) in thousandths, for 1 <= k <= 256.
Log2Table ==
    << 0, 1000, 1585, 2000, 2322, 2585, 2807, 3000,
       3170, 3322, 3459, 3585, 3700, 3807, 3907, 4000,
       4087, 4170, 4248, 4322, 4392, 4459, 4524, 4585,
       4644, 4700, 4755, 4807, 4858, 4907, 4954, 5000,
       5044, 5087, 5129, 5170, 5209, 5248, 5285, 5322,
       5358, 5392, 5426, 5459, 5492, 5524, 5555, 5585,
       5615, 5644, 5672, 5700, 5728, 5755, 5781, 5807,
       5833, 5858, 5883, 5907, 5931, 5954, 5977, 6000,
       6022, 6044, 6066, 6087, 6109, 6129, 6150, 6170,
       6190, 6209, 6229, 6248, 6267, 6285, 6304, 6322,
       6340, 6358, 6375, 6392, 6409, 6426, 6443, 6459,
       6476, 6492, 6508, 6524, 6539, 6555, 6570, 6585,
       6600, 6615, 6629, 6644, 6658, 6672, 6687, 6700,
       6714, 6728, 6741, 6755, 6768, 6781, 6794, 6807,
       6820, 6833, 6845, 6858, 6870, 6883, 6895, 6907,
       6919, 6931, 6943, 6954, 6966, 6977, 6989, 7000,
       7011, 7022, 7033, 7044, 7055, 7066, 7077, 7087,
       7098, 7109, 7119, 7129, 7140, 7150, 7160, 7170,
       7180, 7190, 7200, 7209, 7219, 7229, 7238, 7248,
       7257, 7267, 7276, 7285, 7295, 7304, 7313, 7322,
       7331, 7340, 7349, 7358, 7366, 7375, 7384, 7392,
       7401, 7409, 7418, 7426, 7435, 7443, 7451, 7459,
       7468, 7476, 7484, 7492, 7500, 7508, 7516, 7524,
       7531, 7539, 7547, 7555, 7562, 7570, 7577, 7585,
       7592, 7600, 7607, 7615, 7622, 7629, 7637, 7644,
       7651, 7658, 7665, 7672, 7679, 7687, 7693, 7700,
       7707, 7714, 7721, 7728, 7735, 7741, 7748, 7755,
       7762, 7768, 7775, 7781, 7788, 7794, 7801, 7807,
       7814, 7820, 7827, 7833, 7839, 7845, 7852, 7858,
       7864, 7870, 7877, 7883, 7889, 7895, 7901, 7907,
       7913, 7919, 7925, 7931, 7937, 7943, 7948, 7954,
       7960, 7966, 7972, 7977, 7983, 7989, 7994, 8000 >>

\* -sum((count/total) * log2(count/total)) over the counts of the distinct
\* values of s, in thousandths: sum(count * (log2(total) - log2(count))) / total.
ShannonEntropy(s, total) ==
    LET term(count) == count * (Log2Table[total] - Log2Table[count])
        RECURSIVE Sum(_)
        Sum(S) == IF S = {}
                  THEN 0
                  ELSE LET rest(v) == term(Count(s, v)) + Sum(S \ {v})
                       IN  rest(CHOOSE x \in S : TRUE)
    IN  Sum(Range(s)) \div total

\* The largest r in lo..hi with r * r <= n (lo * lo <= n is assumed).
RECURSIVE IsqrtBetween(_, _, _)
IsqrtBetween(n, lo, hi) ==
    IF lo >= hi
    THEN lo
    ELSE IF ((lo + hi + 1) \div 2) * ((lo + hi + 1) \div 2) <= n
         THEN IsqrtBetween(n, (lo + hi + 1) \div 2, hi)
         ELSE IsqrtBetween(n, lo, ((lo + hi + 1) \div 2) - 1)

\* The square root of n in thousandths, with as many decimals as 31 bits hold.
SqrtMilli(n) ==
    LET root(f) == IsqrtBetween(n * f * f, 0, 46340) * (1000 \div f)
    IN  root(IF n <= 2147 THEN 1000
             ELSE IF n <= 214748 THEN 100
             ELSE IF n <= 21474836 THEN 10 ELSE 1)

(***************************************************************************)
(* The metric extractor.                                                   *)
(***************************************************************************)
\* self.transition_words.
TransitionWords ==
    { <<"h","o","w","e","v","e","r">>,
      <<"t","h","e","r","e","f","o","r","e">>,
      <<"f","u","r","t","h","e","r","m","o","r","e">>,
      <<"m","o","r","e","o","v","e","r">>,
      <<"n","e","v","e","r","t","h","e","l","e","s","s">>,
      <<"t","h","u","s">>,
      <<"c","o","n","s","e","q","u","e","n","t","l","y">>,
      <<"m","e","a","n","w","h","i","l","e">>,
      <<"s","u","b","s","e","q","u","e","n","t","l","y">>,
      <<"a","l","t","e","r","n","a","t","i","v","e","l","y">>,
      <<"a","l","t","h","o","u","g","h">>,
      <<"d","e","s","p","i","t","e">>,
      <<"w","h","e","r","e","a","s">>,
      <<"w","h","i","l","e">>,
      <<"h","e","n","c","e">>,
      <<"a","d","d","i","t","i","o","n","a","l","l","y">>,
      <<"s","i","m","i","l","a","r","l","y">>,
      <<"l","i","k","e","w","i","s","e">>,
      <<"i","n"," ","c","o","n","t","r","a","s","t">>,
      <<"c","o","n","v","e","r","s","e","l","y">>,
      <<"i","n","s","t","e","a","d">>,
      <<"r","a","t","h","e","r">>,
      <<"s","t","i","l","l">>,
      <<"y","e","t">>,
      <<"a","n","y","w","a","y">>,
      <<"b","e","s","i","d","e","s">>,
      <<"f","u","r","t","h","e","r">>,
      <<"n","e","x","t">>,
      <<"f","i","n","a","l","l","y">>,
      <<"l","a","s","t","l","y">>,
      <<"f","i","r","s","t">>,
      <<"s","e","c","o","n","d">>,
      <<"t","h","i","r","d">>,
      <<"t","h","e","n">>,
      <<"a","l","s","o">> }

\* bigrams of _calculate_repetition: f"{words[i]} {words[i+1]}".
Bigrams(words) ==
    [i \in 1..(Len(words) - 1) |-> words[i] \o <<" ">> \o words[i + 1]]

\* A faulty variant of CalculateRepetition: a bigram counts as repeated from its
\* first occurrence on (count > 0).
CalculateRepetitionAnyCount(words) ==
    IF Len(words) < 2
    THEN 0
    ELSE LET score(bigrams, total_bigrams) ==
                 LET repeated_bigrams ==
                         Cardinality({b \in Range(bigrams) : Count(bigrams, b) > 0})
                 IN  IF total_bigrams > 0
                     THEN (repeated_bigrams * 1000) \div total_bigrams
                     ELSE 0
         IN  score(Bigrams(words), Len(words) - 1)

\* _calculate_repetition(words), in thousandths.
CalculateRepetition(words) ==
    IF Len(words) < 2
    THEN 0
    ELSE LET score(bigrams, total_bigrams) ==
                 LET repeated_bigrams ==
                         Cardinality({b \in Range(bigrams) : Count(bigrams, b) > 1})
                 IN  IF total_bigrams > 0
                     THEN (repeated_bigrams * 1000) \div total_bigrams
                     ELSE 0
         IN  score(Bigrams(words), Len(Bigrams(words)))

\* A faulty variant of CalculateEntropy: the entropy of the whitespace-separated
\* words instead of the characters.
CalculateEntropyOfWords(text) ==
    LET entropy(words) == IF words = <<>> THEN 0 ELSE ShannonEntropy(words, Len(words))
    IN  entropy(Split(Lower(text)))

\* _calculate_entropy(text), in thousandths (bits per character).
CalculateEntropy(text) ==
    IF text = <<>>
    THEN 0
    ELSE ShannonEntropy(Lower(text), Len(text))

\* re.split(r'[.!?]+', text), stripped, the empty pieces dropped.
RegexSentences(text) ==
    LET stripped(pieces) == [i \in DOMAIN pieces |-> Strip(pieces[i])]
    IN  NonEmpty(stripped(SplitOn(text, {".", "!", "?"})))

\* _calculate_complexity(text), in thousandths.
CalculateComplexity(text) ==
    IF text = <<>>
    THEN 0
    ELSE LET combine(sentences, words) ==
                 IF sentences = <<>> \/ words = <<>>
                 THEN 0
                 ELSE \* avg_word_length * 0.5 + avg_sentence_length * 0.05
                      (SumSeq([i \in DOMAIN words |-> Len(words[i])]) * 500)
                            \div Len(words)
                      + (Len(words) * 50) \div Len(sentences)
         IN  combine(RegexSentences(text), Split(Lower(text)))

\* A faulty variant of CalculateVocabularyDiversity: the occurrences are not
\* deduplicated (len(words) / len(words)).
CalculateVocabularyDiversityNoSet(words) ==
    IF words = <<>> THEN 0 ELSE (Len(words) * 1000) \div Len(words)

\* _calculate_vocabulary_diversity(words), in thousandths.
CalculateVocabularyDiversity(words) ==
    IF words = <<>>
    THEN 0
    ELSE (Cardinality(Range(words)) * 1000) \div Len(words)

\* std_length / mean_length of the list lengths, in thousandths:
\* np.std is the population standard deviation, so the quotient is
\* sqrt(n * sum(x^2) - sum(x)^2) / sum(x).
CoefficientOfVariation(lengths) ==
    LET quotient(n, s, s2) == IF s > 0 THEN SqrtMilli(n * s2 - s * s) \div s ELSE 0
    IN  quotient(Len(lengths), SumSeq(lengths),
                 SumSeq([i \in DOMAIN lengths |-> lengths[i] * lengths[i]]))

\* _calculate_transition_patterns(words), in thousandths.
CalculateTransitionPatterns(words, phrases) ==
    IF words = <<>>
    THEN 0
    ELSE LET transition_count ==
                 Cardinality({i \in DOMAIN words :
                                  Lower(words[i]) \in phrases})
         IN  (transition_count * 1000) \div Len(words)

\* The syllables of a lower-case word.
SyllablesOfLower(word) ==
    LET vowels == {"a", "e", "i", "o", "u", "y"}
        \* a vowel that does not follow a vowel starts a group
        groups == Cardinality({i \in DOMAIN word :
                      word[i] \in vowels /\ (i = 1 \/ word[i - 1] \notin vowels)})
        n == Len(word)
        adjust(count) ==
            LET afterE  == IF n >= 1 /\ word[n] = "e" THEN count - 1 ELSE count
                afterLE == IF n > 2 /\ word[n - 1] = "l" /\ word[n] = "e"
                           THEN afterE + 1 ELSE afterE
            IN  IF afterLE = 0 THEN 1 ELSE afterLE
    IN  adjust(groups)

\* _count_syllables(word).
CountSyllables(word) == SyllablesOfLower(Lower(word))

(***************************************************************************)
(* The language libraries (NLTK, TextBlob), by what they do on the texts   *)
(* of the model.  The sentence splitter and the tagger are trained         *)
(* statistical models: which candidate boundary becomes a sentence break   *)
(* and how many distinct tags the words get is left open, and nlp is one   *)
(* of the results the libraries may return on the text.                    *)
(***************************************************************************)
SentenceEnd == {".", "!", "?"}

\* Tags the tagger gives words (Penn Treebank tag names).
TagNames ==
    << "NN", "VB", "JJ", "DT", "IN", "RB", "PRP", "CC",
       "NNS", "VBD", "VBZ", "MD", "TO", "VBG", "CD", "WRB" >>

\* Where the sentence splitter may break: after a sentence-ending character
\* that is followed by whitespace and, later, by more text.
BreakCandidates(text) ==
    {i \in 1..(Len(text) - 1) :
        /\ text[i] \in SentenceEnd
        /\ text[i + 1] \in Whitespace
        /\ \E j \in (i + 2)..Len(text) : text[j] \notin Whitespace}

\* nltk.tokenize.sent_tokenize(text), breaking after the positions of breaks:
\* the stripped pieces, a blank last piece dropped.
SentTokenize(text, breaks) ==
    LET pieces(at) ==
            [k \in 1..(Len(at) + 1) |->
                Strip(SubSeq(text, IF k = 1 THEN 1 ELSE at[k - 1] + 1,
                                   IF k = Len(at) + 1 THEN Len(text) ELSE at[k]))]
    IN  NonEmpty(pieces(Sorted(breaks)))

\* The Treebank rule for "...": it becomes a token of its own.
RECURSIVE SpaceEllipsis(_)
SpaceEllipsis(s) ==
    IF Len(s) < 3
    THEN s
    ELSE IF s[1] = "." /\ s[2] = "." /\ s[3] = "."
         THEN <<" ", ".", ".", ".", " ">> \o SpaceEllipsis(SubSeq(s, 4, Len(s)))
         ELSE <<s[1]>> \o SpaceEllipsis(Tail(s))

\* The Treebank rule for the period that ends the string and follows a
\* character other than a period: it becomes a token of its own.
SpaceFinalPeriod(s) ==
    LET rewrite(t, n) == IF n >= 2 /\ t[n] = "." /\ t[n - 1] # "."
                         THEN SubSeq(t, 1, n - 1) \o <<" ", ".">>
                         ELSE s
    IN  rewrite(RStrip(s), Len(RStrip(s)))

\* The Treebank rule for "?" and "!": each becomes a token of its own.
RECURSIVE SpaceMarks(_)
SpaceMarks(s) ==
    IF s = <<>>
    THEN <<>>
    ELSE IF Head(s) \in {"?", "!"}
         THEN <<" ", Head(s), " ">> \o SpaceMarks(Tail(s))
         ELSE <<Head(s)>> \o SpaceMarks(Tail(s))

RECURSIVE Flatten(_)
Flatten(lists) ==
    IF lists = <<>> THEN <<>> ELSE Head(lists) \o Flatten(Tail(lists))

\* The word tokens of one sentence: the rules rewrite the sentence and the
\* result is split at whitespace.  No rule reaches across whitespace, so they
\* are applied to each whitespace-separated chunk, the final-period rule to
\* the last chunk.
TreebankTokens(sentence) ==
    LET tokens(chunks) ==
            Flatten([k \in DOMAIN chunks |->
                Split(IF k = Len(chunks)
                      THEN SpaceMarks(SpaceFinalPeriod(SpaceEllipsis(chunks[k])))
                      ELSE SpaceMarks(SpaceEllipsis(chunks[k])))])
    IN  tokens(Split(sentence))

\* The tokens of each sentence of a list of sentences.
TokensOfSentences(sentences) ==
    Flatten([i \in DOMAIN sentences |-> TreebankTokens(sentences[i])])

\* nltk.tokenize.word_tokenize(text): the tokens of each sentence of text.
WordTokenize(text, breaks) == TokensOfSentences(SentTokenize(text, breaks))

\* A token that holds a letter or a digit.
IsWord(token) == \E i \in DOMAIN token : token[i] \in Alnum

\* The distinct values of s, in the order of their first occurrence.
DistinctInOrder(s) ==
    LET pick(first) == [k \in DOMAIN first |-> s[first[k]]]
    IN  pick(Sorted({i \in DOMAIN s : \A j \in 1..(i - 1) : s[j] # s[i]}))

\* For each token its rank among the distinct words of tokens, in the order
\* of their first occurrence; 0 for a token that is not a word.
WordRanks(tokens) ==
    LET rank(words) ==
            [i \in DOMAIN tokens |->
                IF IsWord(tokens[i])
                THEN CHOOSE k \in DOMAIN words : words[k] = tokens[i]
                ELSE 0]
    IN  rank(DistinctInOrder(SelectSeq(tokens, IsWord)))

\* The tags of nltk.tag.pos_tag(tokens), one per token.  Punctuation has a tag
\* of its own; the distinct words are spread over the first `kinds` tags.
PosTag(tokens, ranks, kinds) ==
    [i \in DOMAIN tokens |->
        IF ranks[i] > 0
        THEN TagNames[((ranks[i] - 1) % kinds) + 1]
        ELSE IF tokens[i] = <<".", ".", ".">> THEN ":" ELSE "."]

\* A token without its leading and trailing punctuation.
StripPunct(token) ==
    LET cut(kept) == IF kept = {}
                     THEN <<>>
                     ELSE SubSeq(token, SetMin(kept), SetMax(kept))
    IN  cut({i \in DOMAIN token : token[i] \in Alnum})

\* The words of a token list, punctuation stripped and dropped.
WordsOfTokens(tokens) == NonEmpty([i \in DOMAIN tokens |-> StripPunct(tokens[i])])

\* What the libraries return on one text:
\*   sentences        sent_tokenize(text), and the sentences of TextBlob(text)
\*   sentence_tokens  word_tokenize(sentence) of each of these sentences
\*   words            word_tokenize(text.lower())
\*   pos_tags         the tags of pos_tag(word_tokenize(text))
\*   blob_words       TextBlob(text).words
\*   raises           the library call that raises LookupError, "none" here
\* for each of word_lists as words and each number of distinct tags.
LibraryResults(sentences, sentence_tokens, tokens, ranks, blob_words, word_lists) ==
    { [ raises          |-> "none",
        sentences       |-> sentences,
        sentence_tokens |-> sentence_tokens,
        words           |-> words,
        pos_tags        |-> pos_tags,
        blob_words      |-> blob_words ] :
        words \in word_lists,
        pos_tags \in { PosTag(tokens, ranks, kinds) :
                         kinds \in 1..Max(1, Min(MaxTagKinds,
                                                 Cardinality(Range(ranks) \ {0}))) } }

\* Every result the libraries may return on text: one for each set of sentence
\* breaks of text, each set of sentence breaks of text.lower() (the same set
\* when text is already lower case) and each number of distinct tags.
NlpChoices(text) ==
    LET of_tokens(sentences, sentence_tokens, tokens, word_lists) ==
            LibraryResults(sentences, sentence_tokens, tokens, WordRanks(tokens),
                           WordsOfTokens(tokens), word_lists)
        of_sentences(sentences, sentence_tokens, word_lists) ==
            of_tokens(sentences, sentence_tokens, Flatten(sentence_tokens), word_lists)
        of_breaks(breaks, sentences, lower_text) ==
            of_sentences(sentences,
                         [i \in DOMAIN sentences |-> TreebankTokens(sentences[i])],
                         { WordTokenize(lower_text, lbreaks) :
                             lbreaks \in IF lower_text = text
                                         THEN {breaks}
                                         ELSE SUBSET BreakCandidates(lower_text) })
    IN  UNION { of_breaks(breaks, SentTokenize(text, breaks), Lower(text)) :
                    breaks \in SUBSET BreakCandidates(text) }

\* The places of the language resources under the NLTK data directory, as
\* nltk.download installs them and as the tokenizers and the tagger load them.
PunktPath == "tokenizers/punkt"

TaggerPath == "taggers/averaged_perceptron_tagger"

ResourcePaths == {PunktPath, TaggerPath}

\* What the libraries do on text when the resources of `present` are
\* installed: word_tokenize and sent_tokenize load the Punkt model and pos_tag
\* loads the tagger, and a call whose resource is missing raises LookupError.
\* word_tokenize is the first library call of _calculate_metrics.
LibraryOutcomes(text, present) ==
    IF PunktPath \notin present
    THEN {[raises |-> "word_tokenize"]}
    ELSE IF TaggerPath \notin present
         THEN {[raises |-> "pos_tag"]}
         ELSE NlpChoices(text)

(***************************************************************************)
(* The metric extractor, continued: the metrics that use the libraries.    *)
(***************************************************************************)
\* _calculate_sentence_variation(sentences), in thousandths.
CalculateSentenceVariation(sentences, nlp) ==
    IF sentences = <<>>
    THEN 0
    ELSE \* lengths = [len(word_tokenize(sent)) for sent in sentences]
         CoefficientOfVariation([i \in DOMAIN sentences |->
                                    Len(nlp.sentence_tokens[i])])

\* _calculate_pos_distribution(text), in thousandths.
CalculatePosDistribution(text, nlp) ==
    IF Strip(text) = <<>>
    THEN 0
    ELSE LET distribution(entropy) == Min(entropy \div 4, 1000)
         IN  distribution(ShannonEntropy(nlp.pos_tags, Len(nlp.pos_tags)))

\* The Flesch Reading Ease score of _calculate_readability before it is
\* clamped, in thousandths; 0 when there is no word or no sentence.
FleschScore(sentences, blob_words) ==
    LET ease(words, syllables) ==
            IF words = 0 \/ sentences = 0
            THEN 0
            ELSE 206835 - (1015 * words) \div sentences
                        - (84600 * syllables) \div words
    IN  ease(Len(blob_words),
             SumSeq([i \in DOMAIN blob_words |-> CountSyllables(blob_words[i])]))

\* A faulty variant of CalculateReadability: the score is not clamped.
CalculateReadabilityUnclamped(text, nlp) ==
    IF Strip(text) = <<>>
    THEN 0
    ELSE FleschScore(Len(nlp.sentences), nlp.blob_words)

\* _calculate_readability(text), in thousandths (Flesch Reading Ease).
CalculateReadability(text, nlp) ==
    IF Strip(text) = <<>>
    THEN 0
    ELSE LET clamp(score) == Max(0, Min(100000, score))
         IN  clamp(FleschScore(Len(nlp.sentences), nlp.blob_words))

\* A faulty variant of CalculateMetrics: the mapping lacks readability.
CalculateMetricsNoReadability(text, nlp, phrases) ==
    [ repetition_score     |-> CalculateRepetition(nlp.words),
      entropy_score        |-> CalculateEntropy(text),
      complexity_score     |-> CalculateComplexity(text),
      vocabulary_diversity |-> CalculateVocabularyDiversity(nlp.words),
      sentence_variation   |-> CalculateSentenceVariation(nlp.sentences, nlp),
      transition_patterns  |-> CalculateTransitionPatterns(nlp.words, phrases),
      pos_distribution     |-> CalculatePosDistribution(text, nlp) ]

\* _calculate_metrics(text).
CalculateMetrics(text, nlp, phrases) ==
    [ repetition_score     |-> CalculateRepetition(nlp.words),
      entropy_score        |-> CalculateEntropy(text),
      complexity_score     |-> CalculateComplexity(text),
      vocabulary_diversity |-> CalculateVocabularyDiversity(nlp.words),
      sentence_variation   |-> CalculateSentenceVariation(nlp.sentences, nlp),
      transition_patterns  |-> CalculateTransitionPatterns(nlp.words, phrases),
      pos_distribution     |-> CalculatePosDistribution(text, nlp),
      readability          |-> CalculateReadability(text, nlp) ]

(***************************************************************************)
(* The explainer: _generate_explanation.  The explanation is the sequence  *)
(* of the parts that "\n".join(parts) joins; a part is its format string   *)
(* with the numbers it prints.                                             *)
(***************************************************************************)
Part(line, numbers) == [line |-> line, numbers |-> numbers]

\* key.replace('_', ' ').title()
FormattedKey ==
    [ repetition_score     |-> "Repetition Score",
      entropy_score        |-> "Entropy Score",
      complexity_score     |-> "Complexity Score",
      vocabulary_diversity |-> "Vocabulary Diversity",
      sentence_variation   |-> "Sentence Variation",
      transition_patterns  |-> "Transition Patterns",
      pos_distribution     |-> "Pos Distribution",
      readability          |-> "Readability" ]

\* The bullet of each metric in the AI-like branch.
Bullet ==
    [ repetition_score     |-> "- Higher than normal repetition patterns",
      entropy_score        |-> "- Unusual entropy patterns in text structure",
      complexity_score     |-> "- Higher than typical text complexity",
      vocabulary_diversity |-> "- Limited vocabulary diversity",
      sentence_variation   |-> "- Uniform sentence structures",
      transition_patterns  |-> "- Limited use of transition words",
      pos_distribution     |-> "- Unusual distribution of parts of speech",
      readability          |-> "- Unusually consistent readability level" ]

\* The comparison that guards a metric's bullet.
Crossed(name, metrics, th) ==
    IF name \in LowerIsAI
    THEN metrics[name] < th[name]
    ELSE metrics[name] > th[name]

\* f"{x:.2f}" of a number held in thousandths: the hundredths it prints.
TwoDecimals(x) == (x + 5) \div 10

\* f"{confidence_percent:.1f}": the tenths of a percent of a confidence score.
OneDecimalPercent(confidence_score) == (confidence_score + 50) \div 100

\* One line of the trailing itemisation.
MetricLine(key, value, th, w) ==
    Part("- {formatted_key}: {value:.3f} (threshold: {threshold:.2f}, weight: {weight:.2f}, {hint})",
         << FormattedKey[key], value, TwoDecimals(th[key]), w[key],
            IF key \in LowerIsAI THEN "Lower values suggest AI"
                                 ELSE "Higher values suggest AI" >>)

\* _generate_explanation(metrics, confidence_score, is_ai_generated).
GenerateExplanation(metrics, confidence_score, is_ai_generated, th, w) ==
    LET head == << Part("Analysis Confidence: {confidence_percent:.1f}%\n",
                        <<OneDecimalPercent(confidence_score)>>) >>
        crossed == SelectSeq(MetricNames, LAMBDA n : Crossed(n, metrics, th))
        verdict ==
            IF is_ai_generated
            THEN << Part("This text shows characteristics of AI-generated content:", <<>>) >>
                 \o [i \in DOMAIN crossed |-> Part(Bullet[crossed[i]], <<>>)]
            ELSE << Part("This text shows characteristics more typical of human-written content:", <<>>) >>
                 \o IF confidence_score < LowConfidence
                    THEN << Part("- Natural variation in writing patterns", <<>>),
                            Part("- Diverse vocabulary usage", <<>>),
                            Part("- Varied sentence structures", <<>>),
                            Part("- Natural transition usage", <<>>),
                            Part("- Typical language patterns", <<>>) >>
                    ELSE << Part("- Some AI-like patterns detected but not enough for confident classification", <<>>),
                            Part("- Mixed characteristics of both human and AI writing", <<>>) >>
        keys == Items(metrics)
        detail == << Part("\nDetailed metrics (with thresholds and weights):", <<>>) >>
                  \o [i \in DOMAIN keys |-> MetricLine(keys[i], metrics[keys[i]], th, w)]
    IN  head \o verdict \o detail

(***************************************************************************)
(* detect.  A Python value carries its type: the caller of detect unpacks  *)
(* the returned tuple by position, whatever the types in it.               *)
(***************************************************************************)
PyBool(b)  == [type |-> "bool",  value |-> b]

PyFloat(x) == [type |-> "float", value |-> x]

PyDict(d)  == [type |-> "dict",  value |-> d]

PyStr(s)   == [type |-> "str",   value |-> s]

\* A faulty variant of IsBlank: the guard is "if not text".
IsBlankEmptyOnly(text) == text = <<>>

\* not text.strip()
IsBlank(text) == Strip(text) = <<>>

\* A faulty variant of Verdict: the cutoff itself counts as AI-generated (>=).
VerdictAtCutoff(confidence_score) == confidence_score >= Cutoff

\* is_ai_generated = confidence_score > 0.70
Verdict(confidence_score) == confidence_score > Cutoff

None == <<>>

\* The outcome of a call: the value it returns, or the exception it raises.
Returned(value) == [exc |-> "none", value |-> value]

Raised(exception) == [exc |-> exception, value |-> None]

\* The keys _generate_explanation looks up in metrics when the verdict is
\* AI-generated.
ExplainedKeys ==
    { "repetition_score", "entropy_score", "complexity_score",
      "vocabulary_diversity", "sentence_variation", "transition_patterns",
      "pos_distribution", "readability" }

\* The lines of detect that follow _calculate_metrics: the score, the verdict,
\* the explanation and the returned tuple
\* (is_ai_generated, metrics, explanation, confidence_score).  A lookup of a
\* key that a dict does not hold raises KeyError.
DetectFromMetrics(metrics, th, w) ==
    LET result(confidence_score, is_ai_generated) ==
            IF is_ai_generated /\ ~(ExplainedKeys \subseteq DOMAIN metrics)
            THEN Raised("KeyError")
            ELSE Returned(<< PyBool(is_ai_generated),
                             PyDict(metrics),
                             PyStr(GenerateExplanation(metrics, confidence_score,
                                                       is_ai_generated, th, w)),
                             PyFloat(confidence_score) >>)
        scored(confidence_score) == result(confidence_score, Verdict(confidence_score))
    IN  IF \E key \in DOMAIN metrics : key \notin DOMAIN th \/ key \notin DOMAIN w
        THEN Raised("KeyError")
        ELSE scored(CalculateConfidenceScore(metrics, th, w))

\* detect(text) on a detector with thresholds th, weights w and transition
\* words tw.
Detect(text, nlp, th, w, tw) ==
    IF IsBlank(text)
    THEN Returned(<< PyBool(FALSE), PyDict(<<>>),
                     PyStr(<<Part("No text provided", <<>>)>>), PyFloat(0) >>)
    ELSE IF nlp.raises # "none"
         THEN Raised("LookupError")
         ELSE DetectFromMetrics(CalculateMetrics(text, nlp, tw), th, w)

\* The metrics _calculate_metrics computes during detect(text): none when
\* detect returns before calling it or word_tokenize raises, those before
\* pos_distribution when pos_tag raises.
ComputedBy(text, nlp) ==
    IF IsBlank(text) \/ nlp.raises = "word_tokenize"
    THEN {}
    ELSE IF nlp.raises = "pos_tag"
         THEN {MetricNames[i] : i \in 1..6}
         ELSE Range(MetricNames)

(***************************************************************************)
(* The HTTP front end: POST /analyze.                                      *)
(***************************************************************************)
\* The minimum length of the stripped text.
MinTextLength == 100

\* A faulty variant of TooShort: only the empty text is refused.
TooShortEmptyOnly(text) == text = <<>>

\* not request.text or len(request.text.strip()) < 100
TooShort(text) == text = <<>> \/ Len(Strip(text)) < MinTextLength

\* The JSON body analyze_text builds from the tuple detect returned, which
\* it unpacks as (is_ai_generated, confidence_score, metrics, explanation).
AnalyzeBody(tuple) ==
    LET is_ai_generated  == tuple[1]
        confidence_score == tuple[2]
        metrics          == tuple[3]
        explanation      == tuple[4]
    IN  [ is_ai_generated    |-> is_ai_generated,
          confidence_score   |-> confidence_score,
          confidence_metrics |-> metrics,
          explanation        |-> explanation ]

(***************************************************************************)
(* The texts of the model: every text of at most MaxTextLen characters     *)
(* over Alphabet, and sample texts long enough for POST /analyze.          *)
(***************************************************************************)
Alphabet == {"a", "A", " ", "."}

ShortTexts == UNION {[1..n -> Alphabet] : n \in 0..MaxTextLen}

RECURSIVE Repeat(_, _)
Repeat(s, n) == IF n = 0 THEN <<>> ELSE s \o Repeat(s, n - 1)

\* "quantum physics " seven times: one sentence of two words, repeated.
SampleRepetitive ==
    Repeat(<< "q", "u", "a", "n", "t", "u", "m", " ", "p", "h", "y", "s", "i", "c",
           "s", " " >>, 7)

\* "the cat sat on the mat."
CatSentence ==
    << "t", "h", "e", " ", "c", "a", "t", " ", "s", "a", "t", " ", "o", "n",
               " ", "t", "h", "e", " ", "m", "a", "t", "." >>

\* CatSentence three times, separated by spaces.
SampleCat == CatSentence \o <<" ">> \o CatSentence \o <<" ">> \o CatSentence

\* "However the dog barks while some cats meow loudly at night yet others
\* stay silent for days. Nobody truly knows the answer."
SampleVaried ==
    << "H", "o", "w", "e", "v", "e", "r", " ", "t", "h", "e", " ", "d", "o",
       "g", " ", "b", "a", "r", "k", "s", " ", "w", "h", "i", "l", "e", " ",
       "s", "o", "m", "e", " ", "c", "a", "t", "s", " ", "m", "e", "o", "w",
       " ", "l", "o", "u", "d", "l", "y", " ", "a", "t", " ", "n", "i", "g",
       "h", "t", " ", "y", "e", "t", " ", "o", "t", "h", "e", "r", "s", " ",
       "s", "t", "a", "y", " ", "s", "i", "l", "e", "n", "t", " ", "f", "o",
       "r", " ", "d", "a", "y", "s", ".", " ", "N", "o", "b", "o", "d", "y",
       " ", "t", "r", "u", "l", "y", " ", "k", "n", "o", "w", "s", " ", "t",
       "h", "e", " ", "a", "n", "s", "w", "e", "r", "." >>

\* "Yes. " three times, then "Nevertheless the extraordinary mathematician
\* carefully explained several complicated theorems about geometry yesterday
\* evening."
SampleUneven ==
    Repeat(<<"Y", "e", "s", ".", " ">>, 3) \o
    << "N", "e", "v", "e", "r", "t", "h", "e", "l", "e", "s", "s", " ", "t",
       "h", "e", " ", "e", "x", "t", "r", "a", "o", "r", "d", "i", "n", "a",
       "r", "y", " ", "m", "a", "t", "h", "e", "m", "a", "t", "i", "c", "i",
       "a", "n", " ", "c", "a", "r", "e", "f", "u", "l", "l", "y", " ", "e",
       "x", "p", "l", "a", "i", "n", "e", "d", " ", "s", "e", "v", "e", "r",
       "a", "l", " ", "c", "o", "m", "p", "l", "i", "c", "a", "t", "e", "d",
       " ", "t", "h", "e", "o", "r", "e", "m", "s", " ", "a", "b", "o", "u",
       "t", " ", "g", "e", "o", "m", "e", "t", "r", "y", " ", "y", "e", "s",
       "t", "e", "r", "d", "a", "y", " ", "e", "v", "e", "n", "i", "n", "g",
       "." >>

SampleTexts == {SampleRepetitive, SampleCat, SampleVaried, SampleUneven}

Texts == ShortTexts \cup SampleTexts

(***************************************************************************)
(* Construction: AITextDetector.__init__.                                  *)
(***************************************************************************)
\* The names __init__ hands to nltk.data.find, which looks a name up as a
\* path under the data directory.
FoundPunkt(present) == "tokenizers/punkt" \in present

FoundTagger(present) == "averaged_perceptron_tagger" \in present

\* Where nltk.download installs a package.
PackagePath ==
    [ punkt                      |-> PunktPath,
      averaged_perceptron_tagger |-> TaggerPath ]

\* What __init__ may do to the data directory that holds `present`: no
\* download when both lookups succeed; otherwise the two downloads, each of
\* which installs its package or fails and returns False, which __init__ does
\* not look at.
ConstructionOutcomes(present) ==
    IF FoundPunkt(present) /\ FoundTagger(present)
    THEN {[downloads |-> <<>>, resources |-> present]}
    ELSE { [ downloads |-> <<"punkt", "averaged_perceptron_tagger">>,
             resources |-> present \cup {PackagePath[package] : package \in installed} ] :
             installed \in SUBSET {"punkt", "averaged_perceptron_tagger"} }

(***************************************************************************)
(* The program: the module-level detector of api.py, its HTTP handlers and *)
(* direct calls of detector.detect.                                        *)
(***************************************************************************)
\* The most requests in flight at a time (the interleaved specification).
NumRequests == 2

Requests == 1..NumRequests

\* A request that is not in flight.
IdleRequest == [pc |-> "idle"]

\* The state once a detector has been constructed on one of the data
\* directories of before.
InitOn(before) ==
    /\ metric_weights = InitialWeights
    /\ thresholds = InitialThresholds
    /\ transition_words = TransitionWords
    /\ \E present \in before :
       \E outcome \in ConstructionOutcomes(present) :
          resources = outcome.resources
    /\ constructed = 1
    /\ pc = "idle"
    /\ op = "none"
    /\ arg = None
    /\ ret = None
    /\ exc = "none"
    /\ computed = {}
    /\ downloads = <<>>
    /\ response = None
    /\ earlier = <<>>
    /\ inflight = [r \in Requests |-> IdleRequest]

\* The state once api.py is imported: the module-level detector has been
\* constructed on some data directory.
Init == InitOn(SUBSET ResourcePaths)

\* The same with both resources installed beforehand.
InitInstalled == InitOn({ResourcePaths})

\* A faulty variant of DetectOn: the detector adapts, every call of detect
\* lowers the repetition threshold by 0.01.
DetectOnAdapting(texts) ==
    /\ pc = "idle"
    /\ constructed >= 1
    /\ \E text \in texts : \E nlp \in LibraryOutcomes(text, resources) :
       \E outcome \in {Detect(text, nlp, thresholds, metric_weights, transition_words)} :
          /\ arg' = [text |-> text, nlp |-> nlp]
          /\ ret' = outcome.value
          /\ exc' = outcome.exc
          /\ computed' = ComputedBy(text, nlp)
    /\ thresholds' = [thresholds EXCEPT !["repetition_score"] = Max(0, @ - 10)]
    /\ op' = "detect"
    /\ pc' = "done"
    /\ UNCHANGED <<metric_weights, transition_words, resources, constructed, downloads,
                   response, earlier, inflight>>

\* A caller runs detector.detect(text) on one of texts.
DetectOn(texts) ==
    /\ pc = "idle"
    /\ constructed >= 1
    /\ \E text \in texts : \E nlp \in LibraryOutcomes(text, resources) :
       \E outcome \in {Detect(text, nlp, thresholds, metric_weights, transition_words)} :
          /\ arg' = [text |-> text, nlp |-> nlp]
          /\ ret' = outcome.value
          /\ exc' = outcome.exc
          /\ computed' = ComputedBy(text, nlp)
    /\ op' = "detect"
    /\ pc' = "done"
    /\ UNCHANGED <<config, resources, constructed, downloads, response, earlier, inflight>>

DetectCall == DetectOn(Texts)

\* The HTTPException analyze_text raises for a text that is too short.
Refusal ==
    [ status_code |-> 400,
      detail |-> "Please provide at least 100 characters of text for accurate analysis." ]

\* POST /analyze with request.text = text, refused with HTTP 400.
AnalyzeTextRefused ==
    /\ pc = "idle"
    /\ \E text \in Texts :
          /\ TooShort(text)
          /\ arg' = [text |-> text, nlp |-> None]
    /\ ret' = None
    /\ exc' = "none"
    /\ computed' = {}
    /\ response' = Refusal
    /\ op' = "analyze"
    /\ pc' = "done"
    /\ UNCHANGED <<config, resources, constructed, downloads, earlier, inflight>>

\* The response analyze_text gives once detector.detect has ended: the JSON
\* body when detect returned, and the server error of the framework when
\* detect raised, which analyze_text does not catch.
AnalyzeResponse(outcome) ==
    IF outcome.exc = "none"
    THEN [status_code |-> 200, body |-> AnalyzeBody(outcome.value)]
    ELSE [status_code |-> 500, detail |-> "Internal Server Error"]

\* POST /analyze with request.text = text, answered from detector.detect.
AnalyzeTextAnswered ==
    /\ pc = "idle"
    /\ \E text \in Texts :
          /\ ~TooShort(text)
          /\ \E nlp \in LibraryOutcomes(text, resources) :
             \E outcome \in {Detect(text, nlp, thresholds, metric_weights,
                                    transition_words)} :
                /\ ret' = outcome.value
                /\ exc' = outcome.exc
                /\ response' = AnalyzeResponse(outcome)
                /\ arg' = [text |-> text, nlp |-> nlp]
                /\ computed' = ComputedBy(text, nlp)
    /\ op' = "analyze"
    /\ pc' = "done"
    /\ UNCHANGED <<config, resources, constructed, downloads, earlier, inflight>>

\* analyze_text(request).
AnalyzeText == AnalyzeTextRefused \/ AnalyzeTextAnswered

\* A faulty variant of HealthBody: the probe reports another word.
HealthBodyOk == [status |-> "ok"]

\* The body of health_check.
HealthBody == [status |-> "healthy"]

\* GET /health.
HealthCheck ==
    /\ pc = "idle"
    /\ arg' = None
    /\ ret' = None
    /\ exc' = "none"
    /\ computed' = {}
    /\ response' = [status_code |-> 200, body |-> HealthBody]
    /\ op' = "health"
    /\ pc' = "done"
    /\ UNCHANGED <<config, resources, constructed, downloads, earlier, inflight>>

\* The call has returned and its values are dropped.
Return ==
    /\ pc = "done"
    /\ pc' = "idle"
    /\ op' = "none"
    /\ arg' = None
    /\ ret' = None
    /\ exc' = "none"
    /\ computed' = {}
    /\ downloads' = <<>>
    /\ response' = None
    /\ UNCHANGED <<config, resources, constructed, earlier, inflight>>

Next == DetectCall \/ AnalyzeText \/ HealthCheck \/ Return

Spec == Init /\ [][Next]_vars

(***************************************************************************)
(* The scorer on its own: _calculate_confidence_score on the metric        *)
(* mappings of a grid.  Each metric takes the multiples of three fifths of its threshold *)
(* up to GridMax of them, which puts values below, between and above the   *)
(* points where the normalised value is clipped.                           *)
(***************************************************************************)
\* The largest multiple of the grid step a metric takes.
GridMax == 2

GridStep(metric_name) == (InitialThresholds[metric_name] * 3) \div 5

GridValues(metric_name) == {k * GridStep(metric_name) : k \in 0..GridMax}

GridMetrics ==
    { [metric_name \in Range(MetricNames) |-> k[metric_name] * GridStep(metric_name)] :
        k \in [Range(MetricNames) -> 0..GridMax] }

\* A caller runs detector._calculate_confidence_score(metrics).
ScoreCall ==
    /\ pc = "idle"
    /\ \E metrics \in GridMetrics :
          /\ arg' = [metrics |-> metrics]
          /\ ret' = PyFloat(CalculateConfidenceScore(metrics, thresholds, metric_weights))
    /\ op' = "_calculate_confidence_score"
    /\ pc' = "done"
    /\ exc' = "none"
    /\ UNCHANGED <<config, resources, constructed, computed, downloads, response, earlier, inflight>>

\* The caller runs it again on the mapping with one metric moved one grid
\* step up or down.
ScoreMoved ==
    /\ pc = "done"
    /\ op = "_calculate_confidence_score"
    /\ \E metric_name \in Range(MetricNames) :
       \E metric_value \in GridValues(metric_name) :
          /\ \/ metric_value = arg.metrics[metric_name] + GridStep(metric_name)
             \/ metric_value = arg.metrics[metric_name] - GridStep(metric_name)
          /\ \E metrics \in {[arg.metrics EXCEPT ![metric_name] = metric_value]} :
                /\ arg' = [metrics |-> metrics]
                /\ ret' = PyFloat(CalculateConfidenceScore(metrics, thresholds,
                                                           metric_weights))
    /\ UNCHANGED <<config, resources, constructed, pc, op, exc, computed, downloads, response, earlier,
                   inflight>>

NextScorer == ScoreCall \/ ScoreMoved \/ Return

SpecScorer == InitInstalled /\ [][NextScorer]_vars

(***************************************************************************)
(* The verdict on its own: the lines of detect that follow                 *)
(* _calculate_metrics, on the metric mappings of the grid.                 *)
(***************************************************************************)
\* detector.detect on a text that is not blank and for which
\* _calculate_metrics returns metrics.
DetectWithMetrics ==
    /\ pc = "idle"
    /\ \E metrics \in GridMetrics :
          /\ arg' = [metrics |-> metrics]
          /\ \E outcome \in {DetectFromMetrics(metrics, thresholds, metric_weights)} :
                /\ ret' = outcome.value
                /\ exc' = outcome.exc
    /\ computed' = Range(MetricNames)
    /\ op' = "detect"
    /\ pc' = "done"
    /\ UNCHANGED <<config, resources, constructed, downloads, response, earlier, inflight>>

NextVerdict == DetectWithMetrics \/ Return

SpecVerdict == InitInstalled /\ [][NextVerdict]_vars

(***************************************************************************)
(* The word-list metrics on their own: _calculate_repetition and           *)
(* _calculate_vocabulary_diversity on every list of at most MaxWords words *)
(* of Vocabulary.                                                          *)
(***************************************************************************)
\* The longest word list.
MaxWords == 4

Vocabulary == {<<"a">>, <<"b">>, <<"c">>}

WordLists == UNION {[1..n -> Vocabulary] : n \in 0..MaxWords}

\* A caller runs detector._calculate_repetition(words).
RepetitionCall ==
    /\ pc = "idle"
    /\ \E words \in WordLists :
          /\ arg' = [words |-> words]
          /\ ret' = PyFloat(CalculateRepetition(words))
    /\ op' = "_calculate_repetition"
    /\ pc' = "done"
    /\ exc' = "none"
    /\ UNCHANGED <<config, resources, constructed, computed, downloads, response, earlier, inflight>>

\* A caller runs detector._calculate_vocabulary_diversity(words).
DiversityCall ==
    /\ pc = "idle"
    /\ \E words \in WordLists :
          /\ arg' = [words |-> words]
          /\ ret' = PyFloat(CalculateVocabularyDiversity(words))
    /\ op' = "_calculate_vocabulary_diversity"
    /\ pc' = "done"
    /\ exc' = "none"
    /\ UNCHANGED <<config, resources, constructed, computed, downloads, response, earlier, inflight>>

\* The caller runs it again on the list with one position replaced by a word
\* the list already holds.
DiversityReplaced ==
    /\ pc = "done"
    /\ op = "_calculate_vocabulary_diversity"
    /\ \E i \in DOMAIN arg.words :
       \E word \in Range(arg.words) \ {arg.words[i]} :
       \E words \in {[arg.words EXCEPT ![i] = word]} :
          /\ arg' = [words |-> words]
          /\ ret' = PyFloat(CalculateVocabularyDiversity(words))
    /\ UNCHANGED <<config, resources, constructed, pc, op, exc, computed, downloads, response, earlier,
                   inflight>>

NextWords == RepetitionCall \/ DiversityCall \/ DiversityReplaced \/ Return

SpecWords == InitInstalled /\ [][NextWords]_vars

(***************************************************************************)
(* detect called again and again on one detector: a call of detect is      *)
(* remembered, with the results the libraries gave it, and later calls are *)
(* held against it.                                                        *)
(***************************************************************************)
TwiceTexts ==
    { <<>>, <<" ">>, <<"a">>, <<"a", " ", "A">>, <<"A", ".", " ", "a">>,
      SampleRepetitive }

DetectAgain == DetectOn(TwiceTexts)

\* The call of detect has returned or raised, and the caller keeps what it
\* got.
ReturnRemembering ==
    /\ pc = "done"
    /\ op = "detect"
    /\ earlier' = << [text |-> arg.text, nlp |-> arg.nlp, ret |-> ret, exc |-> exc] >>
    /\ pc' = "idle"
    /\ op' = "none"
    /\ arg' = None
    /\ ret' = None
    /\ exc' = "none"
    /\ computed' = {}
    /\ downloads' = <<>>
    /\ response' = None
    /\ UNCHANGED <<config, resources, constructed, inflight>>

NextTwice == DetectAgain \/ ReturnRemembering \/ Return

SpecTwice == Init /\ [][NextTwice]_vars

(***************************************************************************)
(* Construction on its own: a process that starts on some data directory   *)
(* and constructs detectors, as importing api.py does once.                *)
(***************************************************************************)
\* The most detectors a process constructs.
MaxDetectors == 2

\* The process has started and no detector is constructed yet.
InitSetup ==
    /\ metric_weights = InitialWeights
    /\ thresholds = InitialThresholds
    /\ transition_words = TransitionWords
    /\ resources \in SUBSET ResourcePaths
    /\ constructed = 0
    /\ pc = "idle"
    /\ op = "none"
    /\ arg = None
    /\ ret = None
    /\ exc = "none"
    /\ computed = {}
    /\ downloads = <<>>
    /\ response = None
    /\ earlier = <<>>
    /\ inflight = [r \in Requests |-> IdleRequest]

\* AITextDetector(): the lookups and downloads of __init__ on the data
\* directory as it is, then the fields of the new detector.
Construct ==
    /\ pc = "idle"
    /\ constructed < MaxDetectors
    /\ \E outcome \in ConstructionOutcomes(resources) :
          /\ downloads' = outcome.downloads
          /\ resources' = outcome.resources
    /\ arg' = [present |-> resources]
    /\ metric_weights' = InitialWeights
    /\ thresholds' = InitialThresholds
    /\ transition_words' = TransitionWords
    /\ constructed' = constructed + 1
    /\ ret' = None
    /\ exc' = "none"
    /\ computed' = {}
    /\ op' = "__init__"
    /\ pc' = "done"
    /\ UNCHANGED <<response, earlier, inflight>>

SetupTexts == TwiceTexts \cup {SampleCat}

DetectConstructed == DetectOn(SetupTexts)

NextSetup == Construct \/ DetectConstructed \/ Return

SpecSetup == InitSetup /\ [][NextSetup]_vars

(***************************************************************************)
(* Requests to POST /analyze in flight together on the module-level        *)
(* detector.  analyze_text is a coroutine that never awaits, so the event  *)
(* loop runs one request to its end before the next; the requests here may *)
(* take turns at every call of a method of the detector, which includes    *)
(* that schedule and those of a server that runs the handler on threads.   *)
(* Each step reads the fields of the detector as they are when it runs.    *)
(***************************************************************************)
InterleavedTexts == {SampleRepetitive, <<"a", " ", "A">>}

\* Request r arrives: analyze_text checks the length of the text and either
\* refuses it or goes on to call detector.detect.
Begin(r) ==
    /\ inflight[r].pc = "idle"
    /\ \E text \in InterleavedTexts :
          IF TooShort(text)
          THEN inflight' = [inflight EXCEPT ![r] =
                               [pc |-> "answered", text |-> text, nlp |-> None,
                                response |-> Refusal]]
          ELSE \E nlp \in LibraryOutcomes(text, resources) :
                  inflight' = [inflight EXCEPT ![r] =
                                  [pc |-> "begun", text |-> text, nlp |-> nlp]]
    /\ UNCHANGED <<config, resources, constructed, pc, op, arg, ret, exc, computed,
                   downloads, response, earlier>>

\* detect of request r runs _calculate_metrics; an exception of a library
\* leaves detect and analyze_text.
Measure(r) ==
    /\ inflight[r].pc = "begun"
    /\ inflight' = [inflight EXCEPT ![r] =
          IF inflight[r].nlp.raises # "none"
          THEN [pc |-> "answered", text |-> inflight[r].text, nlp |-> inflight[r].nlp,
                response |-> AnalyzeResponse(Raised("LookupError"))]
          ELSE [pc |-> "measured", text |-> inflight[r].text, nlp |-> inflight[r].nlp,
                metrics |-> CalculateMetrics(inflight[r].text, inflight[r].nlp,
                                             transition_words)]]
    /\ UNCHANGED <<config, resources, constructed, pc, op, arg, ret, exc, computed,
                   downloads, response, earlier>>

\* A faulty variant of Score: the detector adapts, the step lowers the
\* repetition threshold by 0.01.
ScoreAdapting(r) ==
    /\ inflight[r].pc = "measured"
    /\ \E confidence_score \in {CalculateConfidenceScore(inflight[r].metrics, thresholds,
                                                         metric_weights)} :
          inflight' = [inflight EXCEPT ![r] =
              [pc |-> "scored", text |-> inflight[r].text, nlp |-> inflight[r].nlp,
               metrics |-> inflight[r].metrics,
               confidence_score |-> confidence_score,
               is_ai_generated |-> Verdict(confidence_score)]]
    /\ thresholds' = [thresholds EXCEPT !["repetition_score"] = Max(0, @ - 10)]
    /\ UNCHANGED <<metric_weights, transition_words, resources, constructed, pc, op, arg,
                   ret, exc, computed, downloads, response, earlier>>

\* detect of request r runs _calculate_confidence_score and takes the
\* verdict.
Score(r) ==
    /\ inflight[r].pc = "measured"
    /\ \E confidence_score \in {CalculateConfidenceScore(inflight[r].metrics, thresholds,
                                                         metric_weights)} :
          inflight' = [inflight EXCEPT ![r] =
              [pc |-> "scored", text |-> inflight[r].text, nlp |-> inflight[r].nlp,
               metrics |-> inflight[r].metrics,
               confidence_score |-> confidence_score,
               is_ai_generated |-> Verdict(confidence_score)]]
    /\ UNCHANGED <<config, resources, constructed, pc, op, arg, ret, exc, computed,
                   downloads, response, earlier>>

\* detect of request r runs _generate_explanation.
Explain(r) ==
    /\ inflight[r].pc = "scored"
    /\ inflight' = [inflight EXCEPT ![r] =
          [pc |-> "explained", text |-> inflight[r].text, nlp |-> inflight[r].nlp,
           metrics |-> inflight[r].metrics,
           confidence_score |-> inflight[r].confidence_score,
           is_ai_generated |-> inflight[r].is_ai_generated,
           explanation |-> GenerateExplanation(inflight[r].metrics,
                                               inflight[r].confidence_score,
                                               inflight[r].is_ai_generated,
                                               thresholds, metric_weights)]]
    /\ UNCHANGED <<config, resources, constructed, pc, op, arg, ret, exc, computed,
                   downloads, response, earlier>>

\* detect of request r returns and analyze_text builds the response.
Respond(r) ==
    /\ inflight[r].pc = "explained"
    /\ inflight' = [inflight EXCEPT ![r] =
          [pc |-> "answered", text |-> inflight[r].text, nlp |-> inflight[r].nlp,
           response |-> AnalyzeResponse(Returned(
                            << PyBool(inflight[r].is_ai_generated),
                               PyDict(inflight[r].metrics),
                               PyStr(inflight[r].explanation),
                               PyFloat(inflight[r].confidence_score) >>))]]
    /\ UNCHANGED <<config, resources, constructed, pc, op, arg, ret, exc, computed,
                   downloads, response, earlier>>

\* The response of request r is sent.
Finish(r) ==
    /\ inflight[r].pc = "answered"
    /\ inflight' = [inflight EXCEPT ![r] = IdleRequest]
    /\ UNCHANGED <<config, resources, constructed, pc, op, arg, ret, exc, computed,
                   downloads, response, earlier>>

NextInterleaved ==
    \E r \in Requests :
       Begin(r) \/ Measure(r) \/ Score(r) \/ Explain(r) \/ Respond(r) \/ Finish(r)

SpecInterleaved == Init /\ [][NextInterleaved]_vars

(***************************************************************************)
(* The claims.                                                             *)
(***************************************************************************)

\* C1, as stated: every response of POST /analyze with status 200 carries the
\* result of detect field by field: is_ai_generated is the boolean verdict,
\* confidence_score the numeric confidence in [0,1], confidence_metrics the
\* metric mapping and explanation the explanation string.
C1_ResponseCarriesResult ==
    (pc = "done" /\ op = "analyze" /\ response.status_code = 200) =>
        /\ response.body.is_ai_generated.type = "bool"
        /\ response.body.is_ai_generated = ret[1]
        /\ response.body.confidence_score.type = "float"
        /\ response.body.confidence_score.value \in 0..100000
        /\ response.body.confidence_score = ret[4]
        /\ response.body.confidence_metrics.type = "dict"
        /\ response.body.confidence_metrics = ret[2]
        /\ response.body.explanation.type = "str"
        /\ response.body.explanation = ret[3]

\* C2: detect on the empty string or on a text of whitespace only returns
\* the neutral result (False, {}, "No text provided", 0.0) and computes no
\* metric.
C2_BlankTextNeutral ==
    (/\ pc = "done"
     /\ op = "detect"
     /\ \A i \in DOMAIN arg.text : arg.text[i] \in Whitespace) =>
        /\ computed = {}
        /\ exc = "none"
        /\ Len(ret) = 4
        /\ ret[1] = PyBool(FALSE)
        /\ ret[4] = PyFloat(0)
        /\ ret[2].type = "dict"
        /\ DOMAIN ret[2].value = {}
        /\ ret[3].type = "str"
        /\ ret[3].value = <<Part("No text provided", <<>>)>>

\* A whitespace-only text has had the neutral result.
C2_Witness ==
    /\ pc = "done"
    /\ op = "detect"
    /\ arg.text = <<" ", " ">>
    /\ exc = "none"
    /\ ret[4] = PyFloat(0)
    /\ computed = {}

\* C3: on every mapping of the eight metrics to non-negative values,
\* _calculate_confidence_score returns a value in [0,1] and the contribution
\* of each metric lies between 0 and the weight of the metric.
C3_ScoreAndContributionsBounded ==
    (pc = "done" /\ op = "_calculate_confidence_score") =>
        /\ DOMAIN arg.metrics = Range(MetricNames)
        /\ \A n \in DOMAIN arg.metrics : arg.metrics[n] >= 0
        /\ ret.type = "float"
        /\ ret.value \in 0..100000
        /\ \A n \in DOMAIN arg.metrics :
              Contribution(n, arg.metrics, thresholds, metric_weights)
                  \in 0..(1000 * metric_weights[n])

\* A mapping with a metric above its threshold and a lower-is-AI metric above
\* its threshold has been scored.
C3_Witness ==
    /\ pc = "done"
    /\ op = "_calculate_confidence_score"
    /\ arg.metrics["repetition_score"] > thresholds["repetition_score"]
    /\ arg.metrics["sentence_variation"] > thresholds["sentence_variation"]
    /\ ret.value \in 1..99999

\* C4: the verdict detect returns for a text that is not blank is True
\* exactly when the confidence score of the same call is strictly greater than
\* the cutoff 0.70; a confidence equal to 0.70 gives False.
C4_VerdictIsAboveCutoff ==
    (pc = "done" /\ op = "detect" /\ exc = "none" /\ computed # {}) =>
        /\ ret[1].type = "bool"
        /\ ret[4].type = "float"
        /\ ret[1].value = (ret[4].value > Cutoff)
        /\ (ret[4].value = 70000 => ret[1].value = FALSE)

\* detect has returned a confidence of exactly 0.70 with the verdict False.
C4_Witness ==
    /\ pc = "done"
    /\ op = "detect"
    /\ exc = "none"
    /\ computed # {}
    /\ ret[4].value = 70000
    /\ ret[1].value = FALSE

\* C5: when _calculate_confidence_score runs again on a mapping in which
\* one metric has moved in its AI-like direction (up for repetition_score,
\* entropy_score, complexity_score, pos_distribution and readability; down for
\* vocabulary_diversity, sentence_variation and transition_patterns) and every
\* other metric is the same, the score does not decrease.
C5_MonotoneInAIDirection ==
    [][ (/\ pc = "done" /\ pc' = "done"
         /\ op = "_calculate_confidence_score"
         /\ op' = "_calculate_confidence_score"
         /\ \E n \in Range(MetricNames) :
               /\ \A o \in Range(MetricNames) \ {n} : arg'.metrics[o] = arg.metrics[o]
               /\ IF n \in {"vocabulary_diversity", "sentence_variation",
                            "transition_patterns"}
                  THEN arg'.metrics[n] <= arg.metrics[n]
                  ELSE arg'.metrics[n] >= arg.metrics[n])
        => ret'.value >= ret.value ]_vars

\* A mapping whose lower-is-AI metrics are all 0 and which scores above a
\* half has been scored.
C5_Witness ==
    /\ pc = "done"
    /\ op = "_calculate_confidence_score"
    /\ \A n \in {"vocabulary_diversity", "sentence_variation", "transition_patterns"} :
          arg.metrics[n] = 0
    /\ arg.metrics["entropy_score"] > 0
    /\ arg.metrics["entropy_score"] < thresholds["entropy_score"]
    /\ ret.value > 50000

\* C6: the eight metric weights set by __init__ sum to 1.0 (100 hundredths)
\* and no operation changes them.
C6_WeightsSumToOne ==
    /\ [](/\ DOMAIN metric_weights = Range(MetricNames)
          /\ SumSeq([i \in DOMAIN MetricNames |-> metric_weights[MetricNames[i]]]) = 100)
    /\ [][metric_weights' = metric_weights]_vars

\* detect has scored a text with the weights of __init__.
C6_Witness ==
    /\ pc = "done"
    /\ op = "detect"
    /\ computed = Range(MetricNames)
    /\ metric_weights = [ repetition_score |-> 10, entropy_score |-> 15,
                          complexity_score |-> 10, vocabulary_diversity |-> 20,
                          sentence_variation |-> 20, transition_patterns |-> 10,
                          pos_distribution |-> 10, readability |-> 5 ]

\* C7, as stated: for a text that is not blank every metric detect returns is
\* non-negative, vocabulary_diversity, sentence_variation, transition_patterns
\* and pos_distribution lie in [0,1] and readability lies in [0,100].
C7_MetricsInRange ==
    (pc = "done" /\ op = "detect" /\ exc = "none" /\ computed # {}) =>
        /\ \A n \in DOMAIN ret[2].value : ret[2].value[n] >= 0
        /\ \A n \in {"vocabulary_diversity", "sentence_variation",
                     "transition_patterns", "pos_distribution"} :
              ret[2].value[n] \in 0..1000
        /\ ret[2].value["readability"] \in 0..100000

\* C8: _calculate_repetition returns 0.0 for a word list of fewer than two
\* words and for a word list in which no bigram of adjacent words occurs more
\* than once, and a value above 0 and at most 1 for a word list in which some
\* bigram occurs at least twice.
C8_RepetitionZeroOrPositive ==
    (pc = "done" /\ op = "_calculate_repetition") =>
        LET words == arg.words
            twice == \E i, j \in 1..(Len(words) - 1) :
                        /\ i < j
                        /\ words[i] = words[j]
                        /\ words[i + 1] = words[j + 1]
        IN  /\ ret.type = "float"
            /\ Len(words) < 2 => ret.value = 0
            /\ ~twice => ret.value = 0
            /\ twice => (ret.value > 0 /\ ret.value <= 1000)

\* A word list with a bigram that occurs twice and one that occurs once has
\* had a score strictly between 0 and 1.
C8_Witness ==
    /\ pc = "done"
    /\ op = "_calculate_repetition"
    /\ arg.words = << <<"a">>, <<"b">>, <<"a">>, <<"b">> >>
    /\ ret.value \in 1..999

\* C9, as stated: the entropy_score of a text that consists of a single token
\* repeated (the same word repeated and separated by spaces) is 0.0, and the
\* entropy_score of a text with at least two distinct tokens is strictly
\* positive.  The tokens are the whitespace-separated words of the lower-cased
\* text.
C9_TokenEntropy ==
    (pc = "done" /\ op = "detect" /\ exc = "none" /\ computed # {}) =>
        LET tokens == Split(Lower(arg.text))
        IN  /\ (Len(tokens) >= 2 /\ Cardinality(Range(tokens)) = 1)
                  => ret[2].value["entropy_score"] = 0
            /\ Cardinality(Range(tokens)) >= 2 => ret[2].value["entropy_score"] > 0

\* C9, amended: the entropy_score is taken over the characters of the
\* lower-cased text, whitespace included.  It is 0.0 exactly when the text
\* consists of a single character repeated, so a word repeated and separated
\* by spaces scores above 0; the entropy_score of a text with at least two
\* distinct tokens is strictly positive.
C9_CharacterEntropy ==
    (pc = "done" /\ op = "detect" /\ exc = "none" /\ computed # {}) =>
        LET tokens == Split(Lower(arg.text))
            entropy_score == ret[2].value["entropy_score"]
        IN  /\ entropy_score >= 0
            /\ (entropy_score = 0) <=> (Cardinality(Range(Lower(arg.text))) = 1)
            /\ (Len(tokens) >= 2 /\ Cardinality(Range(tokens)) = 1) => entropy_score > 0
            /\ Cardinality(Range(tokens)) >= 2 => entropy_score > 0

\* The text "a A", one token repeated, has had an entropy_score above 0.
C9_Witness ==
    /\ pc = "done"
    /\ op = "detect"
    /\ arg.text = <<"a", " ", "A">>
    /\ exc = "none"
    /\ ret[2].value["entropy_score"] > 0

\* C10: _calculate_vocabulary_diversity returns 1.0 for a word list that is
\* not empty and repeats no word; and when, in a list in which at most one
\* word occurs more than once, one more position is replaced by a further
\* occurrence of that word, the length being the same, the value strictly
\* decreases.
C10_DiversityDecreasesWithRepeats ==
    /\ []((/\ pc = "done"
           /\ op = "_calculate_vocabulary_diversity"
           /\ arg.words # <<>>
           /\ \A i, j \in DOMAIN arg.words : i # j => arg.words[i] # arg.words[j])
          => ret = PyFloat(1000))
    /\ [][ (/\ pc = "done" /\ pc' = "done"
            /\ op = "_calculate_vocabulary_diversity"
            /\ op' = "_calculate_vocabulary_diversity"
            /\ \E word \in Range(arg.words) :
                  \* every other word occurs once
                  /\ \A i \in DOMAIN arg.words :
                        arg.words[i] # word => Count(arg.words, arg.words[i]) = 1
                  /\ \E i \in DOMAIN arg.words :
                        /\ arg.words[i] # word
                        /\ arg'.words = [arg.words EXCEPT ![i] = word])
           => ret'.value < ret.value ]_vars

\* A list of three words, all the same, has had a diversity of a third.
C10_Witness ==
    /\ pc = "done"
    /\ op = "_calculate_vocabulary_diversity"
    /\ arg.words = << <<"a">>, <<"a">>, <<"a">> >>
    /\ ret.value = 333

\* Whether the request reached the call of detector.detect: the library
\* results that call works with are those of arg.nlp, and a refused request
\* has none.
DetectInvoked == DOMAIN arg.nlp # {}

\* C11: POST /analyze with a text whose stripped length is below 100, the
\* empty and the blank text included, is answered with HTTP 400 and never
\* invokes detect; detect is invoked only for a stripped length of at least
\* 100.
C11_ShortTextRefused ==
    (pc = "done" /\ op = "analyze") =>
        /\ Len(Strip(arg.text)) < 100 =>
              /\ response.status_code = 400
              /\ ~DetectInvoked
              /\ computed = {}
              /\ ret = None
        /\ DetectInvoked => Len(Strip(arg.text)) >= 100
        /\ response.status_code # 400 => DetectInvoked

C11_Witness ==
    /\ pc = "done"
    /\ op = "analyze"
    /\ Len(Strip(arg.text)) \in 1..99
    /\ response.status_code = 400
    /\ ~DetectInvoked

\* C12, as stated: when POS tagging (or the readability computation) raises
\* during detect on a text that is not blank, the detector catches the
\* exception and puts a neutral default in its place, so that detect still
\* returns a complete result: no exception leaves detect and the tuple
\* returned carries all eight metrics.
C12_SubComputationFailureCaught ==
    (/\ pc = "done"
     /\ op = "detect"
     /\ ~IsBlank(arg.text)
     /\ arg.nlp.raises = "pos_tag") =>
        /\ exc = "none"
        /\ Len(ret) = 4
        /\ ret[2].type = "dict"
        /\ DOMAIN ret[2].value = Range(MetricNames)

\* The lines of the explanation that detect returned.
ExplanationLines == [i \in DOMAIN ret[3].value |-> ret[3].value[i].line]

\* Whether the metric of the result lies beyond its threshold on its AI-like
\* side: below for the three metrics where lower values suggest AI, above for
\* the five others.
BeyondThreshold(n) ==
    IF n \in {"vocabulary_diversity", "sentence_variation", "transition_patterns"}
    THEN ret[2].value[n] < thresholds[n]
    ELSE ret[2].value[n] > thresholds[n]

\* The explanation carries the bullet of exactly the metrics beyond their
\* threshold, each once.
BulletsOfCrossed ==
    \A n \in Range(MetricNames) :
       Cardinality({i \in DOMAIN ExplanationLines : ExplanationLines[i] = Bullet[n]})
           = IF BeyondThreshold(n) THEN 1 ELSE 0

\* The explanation ends with the header of the itemisation and then one line
\* for every metric of the mapping, with its value, threshold and weight.
ItemisedLast ==
    \E h \in DOMAIN ret[3].value :
       /\ ExplanationLines[h] = "\nDetailed metrics (with thresholds and weights):"
       /\ \A i \in DOMAIN ret[3].value :
             (i < h) => (ret[3].value[i].numbers = <<>> \/ i = 1)
       /\ Len(ret[3].value) = h + Cardinality(DOMAIN ret[2].value)
       /\ \A n \in DOMAIN ret[2].value :
             \E i \in (h + 1)..Len(ret[3].value) :
                ret[3].value[i].numbers
                    = << FormattedKey[n], ret[2].value[n], TwoDecimals(thresholds[n]),
                         metric_weights[n],
                         IF n \in {"vocabulary_diversity", "sentence_variation",
                                   "transition_patterns"}
                         THEN "Lower values suggest AI"
                         ELSE "Higher values suggest AI" >>

\* C13, as stated: for every verdict, AI-like or human-like, the explanation
\* contains a bullet for exactly those metrics that crossed their threshold in
\* their AI-like direction, followed by one itemised line per metric with its
\* value, threshold and weight.
C13_BulletsForEveryVerdict ==
    (pc = "done" /\ op = "detect" /\ exc = "none" /\ computed # {}) =>
        /\ BulletsOfCrossed
        /\ ItemisedLast

\* C14: a call of detect on the text of an earlier call on the same detector,
\* the libraries giving what they gave then, ends as the earlier one did: the
\* same verdict, metrics, explanation and confidence score, or the same
\* exception, whatever calls of detect came in between.
C14_DetectRepeatable ==
    (/\ pc = "done"
     /\ op = "detect"
     /\ earlier # <<>>
     /\ arg.text = earlier[1].text
     /\ arg.nlp = earlier[1].nlp) =>
        /\ ret = earlier[1].ret
        /\ exc = earlier[1].exc

\* A later call on the text of the remembered call, with a full result.
C14_Witness ==
    /\ pc = "done"
    /\ op = "detect"
    /\ earlier # <<>>
    /\ earlier[1].text = SampleRepetitive
    /\ arg = [text |-> earlier[1].text, nlp |-> earlier[1].nlp]
    /\ exc = "none"
    /\ Len(ret) = 4
    /\ ret = earlier[1].ret

\* C15, as stated: constructing a detector is an idempotent one-time setup.
\* With both language resources present beforehand the construction starts
\* no download; with either missing it starts downloads; in every case both
\* resources are present once it completes; and a second construction in the
\* process starts no download.
C15_SetupIdempotent ==
    (pc = "done" /\ op = "__init__") =>
        /\ (ResourcePaths \subseteq arg.present) => downloads = <<>>
        /\ ~(ResourcePaths \subseteq arg.present) => downloads # <<>>
        /\ ResourcePaths \subseteq resources
        /\ constructed >= 2 => downloads = <<>>

\* C16: GET /health answers with the fixed body {"status": "healthy"} and
\* status 200 without calling the detector, whatever resources the
\* construction of the detector managed to install and whatever requests
\* came before.
C16_HealthFixed ==
    (pc = "done" /\ op = "health") =>
        /\ response = [status_code |-> 200, body |-> [status |-> "healthy"]]
        /\ computed = {}
        /\ ret = None
        /\ exc = "none"

\* The probe answered by a process whose detector has neither resource.
C16_Witness ==
    /\ pc = "done"
    /\ op = "health"
    /\ resources = {}
    /\ response.status_code = 200
    /\ response.body.status = "healthy"

\* The response of POST /analyze to a request that is served alone by the
\* detector as constructed.
AloneResponse(text, nlp) ==
    IF TooShort(text)
    THEN Refusal
    ELSE AnalyzeResponse(Detect(text, nlp, InitialThresholds, InitialWeights,
                                TransitionWords))

\* C17: detect leaves metric_weights, thresholds and transition_words of the
\* shared detector as they are, so each of the /analyze requests in flight
\* together on the module-level detector is answered as it would be alone.
C17_InterleavedAsAlone ==
    /\ [][/\ metric_weights' = metric_weights
          /\ thresholds' = thresholds
          /\ transition_words' = transition_words]_vars
    /\ [](\A r \in Requests :
             inflight[r].pc = "answered" =>
                inflight[r].response = AloneResponse(inflight[r].text, inflight[r].nlp))

\* A request answered from detect while another one is between two calls of
\* methods of the detector.
C17_Witness ==
    /\ inflight[1].pc = "answered"
    /\ inflight[1].response.status_code = 200
    /\ inflight[2].pc \in {"measured", "scored", "explained"}

\* The eight metric names.
EightNames ==
    { "repetition_score", "entropy_score", "complexity_score", "vocabulary_diversity",
      "sentence_variation", "transition_patterns", "pos_distribution", "readability" }

\* C18: the keys of the metric mapping that _calculate_metrics builds for a
\* text that is not blank are exactly the eight metric names, which are also
\* the keys of thresholds and of metric_weights, so that no lookup of a
\* metric name in the scorer or in the explainer misses its key.
C18_SameKeysEverywhere ==
    /\ DOMAIN thresholds = EightNames
    /\ DOMAIN metric_weights = EightNames
    /\ (/\ pc = "done"
        /\ op = "detect"
        /\ ~IsBlank(arg.text)
        /\ arg.nlp.raises = "none") =>
           /\ computed = EightNames
           /\ exc = "none"
           /\ DOMAIN ret[2].value = EightNames

\* An AI-like verdict, for which the explainer looks every metric up by its
\* name.
C18_Witness ==
    /\ pc = "done"
    /\ op = "detect"
    /\ exc = "none"
    /\ Len(ret) = 4
    /\ ret[1].value
    /\ DOMAIN ret[2].value = EightNames

\* The metrics for which lower values are AI-like, and the five others.
LowerGroup == {"vocabulary_diversity", "sentence_variation", "transition_patterns"}

HigherGroup ==
    {"repetition_score", "entropy_score", "complexity_score", "pos_distribution",
     "readability"}

\* The weight of a group of metrics, in hundredths.
GroupWeight(group) ==
    SumSeq([i \in DOMAIN MetricNames |->
               IF MetricNames[i] \in group THEN metric_weights[MetricNames[i]] ELSE 0])

\* C19: the three "lower is AI-like" metrics weigh 0.50 together and the five
\* "higher is AI-like" metrics the other 0.50, so neither group reaches the
\* cutoff of 0.70 alone: with vocabulary_diversity, sentence_variation and
\* transition_patterns all at or above their thresholds the confidence is at
\* most 0.50 and the verdict False, and the same with the five other metrics
\* all 0.
C19_NoGroupReachesCutoff ==
    /\ GroupWeight(LowerGroup) = 50
    /\ GroupWeight(HigherGroup) = 50
    /\ (pc = "done" /\ op = "detect" /\ exc = "none" /\ computed # {}) =>
          /\ (\A n \in LowerGroup : ret[2].value[n] >= thresholds[n]) =>
                (ret[4].value <= 50000 /\ ret[1] = PyBool(FALSE))
          /\ (\A n \in HigherGroup : ret[2].value[n] = 0) =>
                (ret[4].value <= 50000 /\ ret[1] = PyBool(FALSE))

\* The five "higher is AI-like" metrics all beyond their thresholds and the
\* three others at theirs or above: the confidence is 0.50 and the verdict
\* False.
C19_Witness ==
    /\ pc = "done"
    /\ op = "detect"
    /\ exc = "none"
    /\ computed # {}
    /\ \A n \in LowerGroup : ret[2].value[n] >= thresholds[n]
    /\ \A n \in HigherGroup : ret[2].value[n] > thresholds[n]
    /\ ret[4].value = 50000
    /\ ret[1] = PyBool(FALSE)

====
